---- MODULE Spec2Model ----
(***************************************************************************)
(* Menu extraction engine of local-beer-app: the three venue parsers       *)
(* (scrape_1700.py, scrape_billsburg.py, scrape_tradition.py) as one state *)
(* machine.  A text is a sequence of symbols: a symbol is a maximal run of *)
(* letters, a maximal run of digits, or one punctuation character.  A      *)
(* document is a sequence of nodes [name, text]; the line-based parsers    *)
(* read nodes named "line".  An optional value is <<>> (None) or <<v>>.    *)
(* An ABV is held in tenths of a percent.                                  *)
(***************************************************************************)
EXTENDS Integers, Sequences, FiniteSets, TLC

VARIABLES parser, doc, pc, beers, raised, tap_groups, gi, node, tap_group,
          category, lines, i, current_group, current_category, section,
          site

vars == <<parser, doc, pc, beers, raised, tap_groups, gi, node, tap_group,
          category, lines, i, current_group, current_category, section,
          site>>

\* ---------------------------------------------------------------- bounds
MaxBlocks == 3

\* ------------------------------------------------------- optional values
None == <<>>

Some(v) == <<v>>

\* ------------------------------------------------------------ characters
\* "rsquo" stands for the character U+2019 and "bullet" for U+2022
\* "acirc", "euro", "trade" for the three characters of the mis-decoded U+2019
Punct == {" ", ".", ",", "'", "rsquo", "!", "|", "bullet", "%", "-", "*", "/",
          ":", "acirc", "euro", "trade"}

DigitsOf == [s \in {"0", "3", "5", "6", "9", "12", "22", "150", "999", "1700"} |->
               CASE s = "0" -> 0 [] s = "3" -> 3 [] s = "5" -> 5 [] s = "6" -> 6
                 [] s = "9" -> 9
                 [] s = "12" -> 12 [] s = "22" -> 22 [] s = "150" -> 150
                 [] s = "999" -> 999 [] s = "1700" -> 1700]

IsDigits(s) == s \in DOMAIN DigitsOf

IsWord(s) == s \notin Punct

LowerSym(s) ==
  CASE s = "Our" -> "our" [] s = "Drinks" -> "drinks" [] s = "Taps" -> "taps"
    [] s = "Reserves" -> "reserves" [] s = "Hours" -> "hours"
    [] s = "Ale" -> "ale" [] s = "Stout" -> "stout" [] s = "Acme" -> "acme"
    [] s = "ABV" -> "abv" [] s = "IBU" -> "ibu" [] s = "N" -> "n"
    [] s = "A" -> "a" [] s = "Brewing" -> "brewing"
    [] s = "Billsburg" -> "billsburg" [] s = "Brewery" -> "brewery"
    [] s = "Coming" -> "coming" [] s = "Soon" -> "soon"
    [] s = "Powered" -> "powered" [] s = "Taplist" -> "taplist"
    [] s = "IPA" -> "ipa" [] s = "What" -> "what" [] s = "On" -> "on"
    [] s = "Tap" -> "tap" [] s = "WEEKLY" -> "weekly"
    [] s = "LINEUP" -> "lineup" [] s = "Tradition" -> "tradition"
    [] s = "Company" -> "company" [] s = "Draft" -> "draft"
    [] OTHER -> s

Lower(t) == [k \in 1..Len(t) |-> LowerSym(t[k])]

\* ------------------------------------------------- documents and sets
Nd(name, text) == [name |-> name, text |-> text]

BoundedSeq(S, n) == UNION {[1..m -> S] : m \in 0..n}

RECURSIVE Flatten(_)
Flatten(ss) == IF ss = <<>> THEN <<>> ELSE Head(ss) \o Flatten(Tail(ss))

\* ------------------------------------------------------------ str helpers
AllSpace(t) == \A k \in 1..Len(t) : t[k] = " "

Strip(t) ==
  IF AllSpace(t) THEN <<>>
  ELSE LET a == CHOOSE k \in 1..Len(t) : t[k] # " " /\ \A m \in 1..(k-1) : t[m] = " "
           b == CHOOSE k \in 1..Len(t) : t[k] # " " /\ \A m \in (k+1)..Len(t) : t[m] = " "
       IN SubSeq(t, a, b)

\* index of the first occurrence of symbol c in t, 0 when there is none
Find(t, c) ==
  IF \E k \in 1..Len(t) : t[k] = c
  THEN CHOOSE k \in 1..Len(t) : t[k] = c /\ \A m \in 1..(k-1) : t[m] # c
  ELSE 0

\* pat occurs in t as a contiguous run ("pat in t")
Contains(t, pat) ==
  \E k \in 0..(Len(t) - Len(pat)) : SubSeq(t, k+1, k+Len(pat)) = pat

StartsWith(t, pat) == Len(t) >= Len(pat) /\ SubSeq(t, 1, Len(pat)) = pat

RECURSIVE Split(_, _)
Split(t, c) ==
  LET p == Find(t, c)
  IN IF p = 0 THEN <<t>>
     ELSE <<SubSeq(t, 1, p-1)>> \o Split(SubSeq(t, p+1, Len(t)), c)

\* position after any run of spaces starting at p
RECURSIVE SkipSpaces(_, _)
SkipSpaces(t, p) ==
  IF p <= Len(t) /\ t[p] = " " THEN SkipSpaces(t, p+1) ELSE p

\* number of characters of a text
RECURSIVE CharLen(_)
CharLen(t) ==
  IF t = <<>> THEN 0
  ELSE (IF Head(t) \in {"rsquo", "bullet", "acirc", "euro", "trade"} THEN 1
        ELSE Len(Head(t))) + CharLen(Tail(t))

\* re.sub(r"[^a-z0-9]+", "-", text): every maximal run of non-alphanumerics
\* becomes one hyphen
RECURSIVE HyphenRuns(_)
HyphenRuns(t) ==
  IF t = <<>> THEN <<>>
  ELSE IF IsWord(Head(t)) THEN <<Head(t)>> \o HyphenRuns(Tail(t))
  ELSE IF Len(t) > 1 /\ ~IsWord(t[2]) THEN HyphenRuns(Tail(t))
  ELSE <<"-">> \o HyphenRuns(Tail(t))

\* re.sub(r"-+", "-", text)
RECURSIVE CollapseHyphens(_)
CollapseHyphens(t) ==
  IF t = <<>> THEN <<>>
  ELSE IF Len(t) > 1 /\ t[1] = "-" /\ t[2] = "-" THEN CollapseHyphens(Tail(t))
  ELSE <<Head(t)>> \o CollapseHyphens(Tail(t))

\* text.strip("-")
StripHyphens(t) ==
  IF \A k \in 1..Len(t) : t[k] = "-" THEN <<>>
  ELSE LET a == CHOOSE k \in 1..Len(t) : t[k] # "-" /\ \A m \in 1..(k-1) : t[m] = "-"
           b == CHOOSE k \in 1..Len(t) : t[k] # "-" /\ \A m \in (k+1)..Len(t) : t[m] = "-"
       IN SubSeq(t, a, b)

\* re.sub(chars, "", text): the characters go and the letters and digits
\* around them join into one run
RECURSIVE MergeWords(_)
MergeWords(t) ==
  IF Len(t) < 2 THEN t
  ELSE IF IsWord(t[1]) /\ IsWord(t[2])
       THEN MergeWords(<<t[1] \o t[2]>> \o SubSeq(t, 3, Len(t)))
       ELSE <<Head(t)>> \o MergeWords(Tail(t))

Remove(t, chars) == MergeWords(SelectSeq(t, LAMBDA s : s \notin chars))

\* =================================================== scrape_1700.py
BREWERY_NAME_1700 == <<"1700", " ", "Brewing">>

slugify_1700(text) ==
  StripHyphens(CollapseHyphens(HyphenRuns(Remove(Lower(text), {"'", "rsquo"}))))

\* float(m.group(1)), in tenths; frac is None or one digit symbol
Float(int, frac) ==
  DigitsOf[int] * 10 + (IF frac = None THEN 0 ELSE DigitsOf[frac[1]])

\* (\d+(?:\.\d+)?) at p: the position after the number, with and without
\* the fraction
HasFrac(t, p) == p + 2 <= Len(t) /\ t[p+1] = "." /\ IsDigits(t[p+2])

\* \s*%?\s*ABV at q
TailABV_1700(t, q) ==
  LET q1 == SkipSpaces(t, q)
      q2 == IF q1 <= Len(t) /\ t[q1] = "%" THEN q1 + 1 ELSE q1
      q3 == SkipSpaces(t, q2)
  IN q3 <= Len(t) /\ LowerSym(t[q3]) = "abv"

AbvMatchAt_1700(t, p) ==
  /\ IsDigits(t[p])
  /\ \/ HasFrac(t, p) /\ TailABV_1700(t, p + 3)
     \/ TailABV_1700(t, p + 1)

\* re.search(r"(\d+(?:\.\d+)?)\s*%?\s*ABV", line, re.IGNORECASE)
SearchAbv_1700(line) ==
  IF \E p \in 1..Len(line) : AbvMatchAt_1700(line, p)
  THEN LET p == CHOOSE p \in 1..Len(line) :
                  AbvMatchAt_1700(line, p) /\ \A m \in 1..(p-1) : ~AbvMatchAt_1700(line, m)
       IN IF HasFrac(line, p) /\ TailABV_1700(line, p + 3)
          THEN Some(Float(line[p], Some(line[p+2])))
          ELSE Some(Float(line[p], None))
  ELSE None

IsNAAt(t, p) ==
  p + 2 <= Len(t) /\ LowerSym(t[p]) = "n" /\ t[p+1] = "/" /\ LowerSym(t[p+2]) = "a"

TailIBU(t, q) ==
  LET q1 == SkipSpaces(t, q) IN q1 <= Len(t) /\ LowerSym(t[q1]) = "ibu"

IbuMatchAt_1700(t, p) ==
  \/ IsDigits(t[p]) /\ TailIBU(t, p + 1)
  \/ IsNAAt(t, p) /\ TailIBU(t, p + 3)

\* re.search(r"(\d+|N/A)\s*IBU", line, re.IGNORECASE) and the int() of it
SearchIbu_1700(line) ==
  IF \E p \in 1..Len(line) : IbuMatchAt_1700(line, p)
  THEN LET p == CHOOSE p \in 1..Len(line) :
                  IbuMatchAt_1700(line, p) /\ \A m \in 1..(p-1) : ~IbuMatchAt_1700(line, m)
       IN IF IsDigits(line[p]) /\ TailIBU(line, p + 1)
          THEN Some(DigitsOf[line[p]])
          ELSE None
  ELSE None

ProducerFromLine(line) ==
  LET chunks == Split(line, "|")
      producer_name_guess == Strip(chunks[Len(chunks)])
  IN IF producer_name_guess # <<>> THEN Some(producer_name_guess) ELSE None

StyleFromLine(line) ==
  IF Find(line, "bullet") # 0 /\ Find(line, "|") # 0
  THEN LET after_bullet == SubSeq(line, Find(line, "bullet") + 1, Len(line))
           style_segment == Strip(Split(after_bullet, "|")[1])
       IN IF style_segment # <<>> THEN Some(style_segment) ELSE None
  ELSE None

parse_abv_ibu_and_style_from_line(line) ==
  [abv |-> SearchAbv_1700(line), ibu |-> SearchIbu_1700(line),
   style_from_line |-> StyleFromLine(line),
   producer_name |-> ProducerFromLine(line)]

\* re.match(r"^\d+\.\s*(.+)$", text): a leading ordinal and a non-empty rest
StripOrdinal(text) ==
  IF Len(text) >= 3 /\ IsDigits(text[1]) /\ text[2] = "."
  THEN Strip(SubSeq(text, 3, Len(text)))
  ELSE text

parse_beer_header(text) ==
  LET t == StripOrdinal(Strip(text))
      c == Find(t, ",")
  IN IF c # 0
     THEN [name |-> Strip(SubSeq(t, 1, c-1)),
           style |-> Some(Strip(SubSeq(t, c+1, Len(t))))]
     ELSE [name |-> t, style |-> None]

\* ---- parse_1700_page, step by step
\* the first h1/h2 whose text contains "Our Drinks", 0 when there is none
AnchorIndex(d) ==
  LET IsAnchor(k) == /\ d[k].name \in {"h1", "h2"}
                     /\ Contains(Strip(d[k].text), <<"Our", " ", "Drinks">>)
  IN IF \E k \in 1..Len(d) : IsAnchor(k)
     THEN CHOOSE k \in 1..Len(d) : IsAnchor(k) /\ \A m \in 1..(k-1) : ~IsAnchor(m)
     ELSE 0

\* the h2 siblings after the anchor, in document order
RECURSIVE H2After(_, _)
H2After(d, k) ==
  IF k > Len(d) THEN <<>>
  ELSE IF d[k].name = "h2" THEN <<k>> \o H2After(d, k+1)
  ELSE H2After(d, k+1)

CategoryOf_1700(group) ==
  IF Contains(group, <<"Reserves">>) THEN "guest_na" ELSE "on_tap"

\* the first text, among the siblings that follow position k up to the next
\* h2/h3, that contains both "ABV" and "IBU"; None when there is none
RECURSIVE AbvLine(_, _)
AbvLine(d, k) ==
  IF k > Len(d) \/ d[k].name \in {"h2", "h3"} THEN None
  ELSE LET text == Strip(d[k].text)
       IN IF text # <<>> /\ Contains(text, <<"ABV">>) /\ Contains(text, <<"IBU">>)
          THEN Some(text)
          ELSE AbvLine(d, k+1)

Record_1700(header_text, abv_line, group, cat) ==
  LET h == parse_beer_header(header_text)
      s == parse_abv_ibu_and_style_from_line(abv_line)
      style == IF h.style # None /\ h.style[1] # <<>> THEN h.style
               ELSE IF s.style_from_line # None THEN s.style_from_line ELSE None
      producer_name == IF s.producer_name # None THEN s.producer_name[1]
                       ELSE BREWERY_NAME_1700
  IN [id |-> slugify_1700(BREWERY_NAME_1700) \o <<"-">> \o slugify_1700(h.name),
      producerName |-> producer_name, name |-> h.name, style |-> style,
      abv |-> s.abv, ibu |-> s.ibu, tapGroup |-> group, category |-> cat]

\* lines 121-129: the anchor is missing and the function raises
P1700_NoAnchor ==
  /\ parser = "1700" /\ pc = "start"
  /\ AnchorIndex(doc) = 0
  /\ raised' = TRUE
  /\ pc' = "raised"
  /\ UNCHANGED <<parser, doc, beers, tap_groups, gi, node, tap_group, category,
                 lines, i, current_group, current_category, section, site>>

\* lines 121-139: the anchor is found and the h2 after it are collected
P1700_Anchor ==
  /\ parser = "1700" /\ pc = "start"
  /\ AnchorIndex(doc) # 0
  /\ tap_groups' = H2After(doc, AnchorIndex(doc) + 1)
  /\ gi' = 1
  /\ pc' = "groups"
  /\ UNCHANGED <<parser, doc, beers, raised, node, tap_group, category,
                 lines, i, current_group, current_category, section, site>>

\* lines 141-151: the next h2 becomes the tap group
P1700_Group ==
  /\ parser = "1700" /\ pc = "groups"
  /\ gi <= Len(tap_groups)
  /\ tap_group' = Strip(doc[tap_groups[gi]].text)
  /\ category' = CategoryOf_1700(Strip(doc[tap_groups[gi]].text))
  /\ node' = tap_groups[gi] + 1
  /\ pc' = "walk"
  /\ UNCHANGED <<parser, doc, beers, raised, tap_groups, gi,
                 lines, i, current_group, current_category, section, site>>

\* line 152: the walk of a group ends at the next h2 or at the end
P1700_EndGroup ==
  /\ parser = "1700" /\ pc = "walk"
  /\ IF node <= Len(doc) THEN doc[node].name = "h2" ELSE TRUE
  /\ gi' = gi + 1
  /\ pc' = "groups"
  /\ UNCHANGED <<parser, doc, beers, raised, tap_groups, node, tap_group,
                 category, lines, i, current_group, current_category, section, site>>

\* P1700_Beer with "break" for the "continue" of line 176: a beer without a
\* stat line ends the walk of its group
P1700_Beer_Break ==
  /\ parser = "1700" /\ pc = "walk"
  /\ node <= Len(doc) /\ doc[node].name = "h3"
  /\ LET abv_line == AbvLine(doc, node + 1)
     IN IF abv_line = None
        THEN beers' = beers /\ node' = Len(doc) + 1
        ELSE /\ beers' = Append(beers, Record_1700(doc[node].text, abv_line[1],
                                                   tap_group, category))
             /\ node' = node + 1
  /\ UNCHANGED <<parser, doc, pc, raised, tap_groups, gi, tap_group, category,
                 lines, i, current_group, current_category, section, site>>

\* lines 153-206: an h3 is a beer header; without a stat line it is skipped
P1700_Beer ==
  /\ parser = "1700" /\ pc = "walk"
  /\ node <= Len(doc) /\ doc[node].name = "h3"
  /\ LET abv_line == AbvLine(doc, node + 1)
     IN IF abv_line = None
        THEN beers' = beers
        ELSE beers' = Append(beers, Record_1700(doc[node].text, abv_line[1],
                                                tap_group, category))
  /\ node' = node + 1
  /\ UNCHANGED <<parser, doc, pc, raised, tap_groups, gi, tap_group, category,
                 lines, i, current_group, current_category, section, site>>

\* P1700_Skip taking the text of the sibling for the tap group
P1700_Skip_Regroup ==
  /\ parser = "1700" /\ pc = "walk"
  /\ node <= Len(doc) /\ doc[node].name \notin {"h2", "h3"}
  /\ node' = node + 1
  /\ tap_group' = Strip(doc[node].text)
  /\ UNCHANGED <<parser, doc, pc, beers, raised, tap_groups, gi,
                 category, lines, i, current_group, current_category, section, site>>

\* lines 152, 206: any other sibling is passed over
P1700_Skip ==
  /\ parser = "1700" /\ pc = "walk"
  /\ node <= Len(doc) /\ doc[node].name \notin {"h2", "h3"}
  /\ node' = node + 1
  /\ UNCHANGED <<parser, doc, pc, beers, raised, tap_groups, gi, tap_group,
                 category, lines, i, current_group, current_category, section, site>>

\* line 208
P1700_Return ==
  /\ parser = "1700" /\ pc = "groups"
  /\ gi > Len(tap_groups)
  /\ pc' = "done"
  /\ UNCHANGED <<parser, doc, beers, raised, tap_groups, gi, node, tap_group,
                 category, lines, i, current_group, current_category, section, site>>

\* =============================================== scrape_billsburg.py
v1700 == <<tap_groups, gi, node, tap_group, category>>

BREWERY_NAME_billsburg == <<"Billsburg", " ", "Brewery">>

slugify_billsburg(text) ==
  StripHyphens(CollapseHyphens(HyphenRuns(
    Remove(Lower(text), {"acirc", "euro", "trade", "'"}))))

\* the characters of a text, as one string
RECURSIVE Join(_)
Join(t) == IF t = <<>> THEN "" ELSE Head(t) \o Join(Tail(t))

build_name_key(name) == Join(SelectSeq(Lower(name), IsWord))

\* \b before position p and after position p
BoundaryBefore(t, p) == IF p = 1 THEN TRUE ELSE ~IsWord(t[p-1])

BoundaryAfter(t, p) == IF p = Len(t) THEN TRUE ELSE ~IsWord(t[p+1])

\* \s*%\b at q: a percent sign with a letter or digit right after it
TailPercentWord(t, q) ==
  LET q1 == SkipSpaces(t, q)
  IN q1 < Len(t) /\ t[q1] = "%" /\ IsWord(t[q1+1])

\* \bABV\s*(\d+(?:\.\d+)?)\s*%\b at p; n is where the number stands
AbvKeywordAt(t, p) ==
  LET n == SkipSpaces(t, p + 1)
  IN /\ LowerSym(t[p]) = "abv" /\ BoundaryBefore(t, p)
     /\ n <= Len(t) /\ IsDigits(t[n])
     /\ \/ HasFrac(t, n) /\ TailPercentWord(t, n + 3)
        \/ TailPercentWord(t, n + 1)

NumberAt(t, n, withFrac) ==
  IF withFrac THEN Float(t[n], Some(t[n+2])) ELSE Float(t[n], None)

\* re.fullmatch(r"(\d+(?:\.\d+)?)\s*%", line)
IsPercentLine(t) ==
  /\ t # <<>> /\ IsDigits(t[1])
  /\ LET q == SkipSpaces(t, IF HasFrac(t, 1) THEN 4 ELSE 2)
     IN q = Len(t) /\ t[q] = "%"

parse_abv_billsburg(raw) ==
  LET line == Strip(raw)
  IN IF \E p \in 1..Len(line) : AbvKeywordAt(line, p)
     THEN LET p == CHOOSE p \in 1..Len(line) :
                     AbvKeywordAt(line, p) /\ \A m \in 1..(p-1) : ~AbvKeywordAt(line, m)
              n == SkipSpaces(line, p + 1)
          IN Some(NumberAt(line, n, HasFrac(line, n) /\ TailPercentWord(line, n + 3)))
     ELSE IF IsPercentLine(line) THEN Some(NumberAt(line, 1, HasFrac(line, 1)))
     ELSE None

\* \bIBU\s*(\d{1,3})\b at p
IbuKeywordAt(t, p) ==
  LET n == SkipSpaces(t, p + 1)
  IN /\ LowerSym(t[p]) = "ibu" /\ BoundaryBefore(t, p)
     /\ n <= Len(t) /\ IsDigits(t[n]) /\ Len(t[n]) <= 3
     /\ BoundaryAfter(t, n)

parse_ibu(raw) ==
  LET line == Strip(raw)
  IN IF \E p \in 1..Len(line) : IbuKeywordAt(line, p)
     THEN LET p == CHOOSE p \in 1..Len(line) :
                     IbuKeywordAt(line, p) /\ \A m \in 1..(p-1) : ~IbuKeywordAt(line, m)
              val == DigitsOf[line[SkipSpaces(line, p + 1)]]
          IN IF 1 <= val /\ val <= 150 THEN Some(val) ELSE None
     ELSE None

\* text.splitlines(), stripped, the empty ones dropped
RECURSIVE NormalizeLines(_)
NormalizeLines(d) ==
  IF d = <<>> THEN <<>>
  ELSE IF Strip(Head(d).text) = <<>> THEN NormalizeLines(Tail(d))
  ELSE <<Strip(Head(d).text)>> \o NormalizeLines(Tail(d))

is_brewery_line(line) == Lower(Strip(line)) = Lower(BREWERY_NAME_billsburg)

IsComingSoon(line) == StartsWith(Lower(line), <<"coming", " ", "soon">>)

is_noise(line) ==
  LET low == Lower(line)
  IN \/ StartsWith(low, <<"last", " ", "updated", ":">>)
     \/ StartsWith(low, <<"powered", " ", "by">>)
     \/ Contains(low, <<"powered", " ", "by", " ", "taplist">>)
     \/ low = <<"taplist", ".", "io">>
     \/ Contains(low, <<"instant", " ", "digital", " ", "menus">>)

\* lines 194-203: the closest line above i that is no noise, no "coming soon"
\* and no "current menu" line; None when there is none
RECURSIVE NameAbove(_, _)
NameAbove(ls, j) ==
  IF j < 1 THEN None
  ELSE IF \/ is_noise(ls[j]) \/ IsComingSoon(ls[j])
          \/ Contains(Lower(ls[j]), <<"current", " ", "menu">>)
       THEN NameAbove(ls, j - 1)
       ELSE Some(ls[j])

HasSym(t, low) == \E k \in 1..Len(t) : LowerSym(t[k]) = low

\* re.search(r"\bSRM\b", nxt, flags=re.IGNORECASE)
IsSrmLine(t) ==
  \E k \in 1..Len(t) :
    LowerSym(t[k]) = "srm" /\ BoundaryBefore(t, k) /\ BoundaryAfter(t, k)

\* lines 245-254: may this line be taken as the style
IsStyleLine(nxt) ==
  /\ ~HasSym(nxt, "abv") /\ ~HasSym(nxt, "ibu") /\ ~HasSym(nxt, "srm")
  /\ Find(nxt, "%") = 0
  /\ ~(Len(nxt) = 1 /\ IsDigits(nxt[1]) /\ Len(nxt[1]) <= 3)
  /\ 2 <= CharLen(nxt) /\ CharLen(nxt) <= 40

\* lines 212-256: the scan from line k on, acc holding style, abv and ibu
RECURSIVE ScanForward(_, _, _)
ScanForward(ls, k, acc) ==
  IF k > Len(ls) THEN acc
  ELSE IF \/ (k + 1 <= Len(ls) /\ is_brewery_line(ls[k+1]))
          \/ IsComingSoon(ls[k])
          \/ is_noise(ls[k])
          \/ is_brewery_line(ls[k])
       THEN acc
  ELSE IF parse_abv_billsburg(ls[k]) # None
       THEN ScanForward(ls, k + 1, [acc EXCEPT !.abv = parse_abv_billsburg(ls[k])])
  ELSE IF parse_ibu(ls[k]) # None
       THEN ScanForward(ls, k + 1, [acc EXCEPT !.ibu = parse_ibu(ls[k])])
  ELSE IF IsSrmLine(ls[k]) THEN ScanForward(ls, k + 1, acc)
  ELSE IF acc.style = None /\ IsStyleLine(ls[k])
       THEN ScanForward(ls, k + 1, [acc EXCEPT !.style = Some(ls[k])])
  ELSE ScanForward(ls, k + 1, acc)

Record_billsburg(beer_name, f, group, cat) ==
  [id |-> slugify_billsburg(BREWERY_NAME_billsburg \o <<"-">> \o beer_name),
   producerName |-> BREWERY_NAME_billsburg, name |-> beer_name,
   style |-> f.style, abv |-> f.abv, ibu |-> f.ibu,
   tapGroup |-> group, category |-> cat]

\* ---- enrich_from_billsburg_site
FetchFailed == <<Nd("error", <<>>)>>

HasAny(t, words) == \E w \in words : Contains(Lower(t), w)

SiteWords ==
  {<<"last", " ", "updated">>, <<"powered", " ", "by">>, <<"taplist">>, <<"menu">>}

\* lines 118-136: does the line at idx close a usable name/style/abv triplet
IsTriplet(ls, idx) ==
  /\ idx >= 3
  /\ parse_abv_billsburg(ls[idx]) # None
  /\ CharLen(ls[idx-2]) <= 80 /\ CharLen(ls[idx-1]) <= 60
  /\ ~HasAny(ls[idx-1], SiteWords)
  /\ ~HasAny(ls[idx-2], SiteWords)
  /\ build_name_key(ls[idx-2]) # ""

\* lines 115-136: the triplets of the page in page order, as
\* [key, style, abv]; a later entry of a key replaces an earlier one
RECURSIVE BuildMapping(_, _)
BuildMapping(ls, idx) ==
  IF idx > Len(ls) THEN <<>>
  ELSE IF IsTriplet(ls, idx)
       THEN <<[key |-> build_name_key(ls[idx-2]), style |-> ls[idx-1],
               abv |-> parse_abv_billsburg(ls[idx])]>> \o BuildMapping(ls, idx + 1)
       ELSE BuildMapping(ls, idx + 1)

\* mapping.get(key): the last entry stored under the key, None without one
MappingGet(mapping, key) ==
  LET hits == {n \in 1..Len(mapping) : mapping[n].key = key}
  IN IF hits = {} THEN None
     ELSE Some(mapping[CHOOSE x \in hits : \A y \in hits : y <= x])

\* EnrichOne with the "b.abv is None" test of line 152 left out
EnrichOne_Overwrite(b, mapping) ==
  LET m == MappingGet(mapping, build_name_key(b.name))
  IN IF m = None THEN b
     ELSE [b EXCEPT
             !.style = IF b.style = None /\ m[1].style # <<>>
                       THEN Some(m[1].style) ELSE b.style,
             !.abv = IF m[1].abv # None THEN m[1].abv ELSE b.abv]

\* lines 143-154, for one record
EnrichOne(b, mapping) ==
  LET m == MappingGet(mapping, build_name_key(b.name))
  IN IF m = None THEN b
     ELSE [b EXCEPT
             !.style = IF b.style = None /\ m[1].style # <<>>
                       THEN Some(m[1].style) ELSE b.style,
             !.abv = IF b.abv = None /\ m[1].abv # None THEN m[1].abv ELSE b.abv]

\* lines 105-136: what the fetch and the reading of the page leave behind
SiteOf(fetched) ==
  IF fetched = FetchFailed
  THEN [called |-> TRUE, failed |-> TRUE, mapping |-> <<>>]
  ELSE [called |-> TRUE, failed |-> FALSE,
        mapping |-> BuildMapping(NormalizeLines(fetched), 1)]

NotCalled == [called |-> FALSE, failed |-> FALSE, mapping |-> <<>>]

\* enrich_from_billsburg_site without the try/except of lines 105-109: the
\* failed fetch loses the records
enrich_from_billsburg_site_NoCatch(bs, s) ==
  IF s.failed THEN <<>>
  ELSE IF s.mapping = <<>> THEN bs
  ELSE [k \in 1..Len(bs) |-> EnrichOne(bs[k], s.mapping)]

\* lines 105-156: the records after the call
enrich_from_billsburg_site(bs, s) ==
  IF s.failed THEN bs
  ELSE IF s.mapping = <<>> THEN bs
  ELSE [k \in 1..Len(bs) |-> EnrichOne(bs[k], s.mapping)]

\* ---- parse_billsburg_page, step by step
vTrad == <<section>>

AnyMissing(bs) == \E k \in 1..Len(bs) : bs[k].abv = None \/ bs[k].style = None

\* lines 163-168
B_Lines ==
  /\ parser = "billsburg" /\ pc = "start"
  /\ lines' = NormalizeLines(doc)
  /\ i' = 1
  /\ pc' = "scan"
  /\ UNCHANGED <<parser, doc, beers, raised, current_group, current_category,
                 site>>
  /\ UNCHANGED <<v1700, vTrad>>

\* lines 186-189: a "coming soon" line changes the group
B_ComingSoon ==
  /\ parser = "billsburg" /\ pc = "scan"
  /\ i <= Len(lines) /\ IsComingSoon(lines[i])
  /\ current_group' = <<"Coming", " ", "Soon">>
  /\ current_category' = "coming_soon"
  /\ i' = i + 1
  /\ UNCHANGED <<parser, doc, pc, beers, raised, lines, site>>
  /\ UNCHANGED <<v1700, vTrad>>

\* lines 191-192: any other line that is not the brewery line is passed over
B_Other ==
  /\ parser = "billsburg" /\ pc = "scan"
  /\ i <= Len(lines) /\ ~IsComingSoon(lines[i]) /\ ~is_brewery_line(lines[i])
  /\ i' = i + 1
  /\ UNCHANGED <<parser, doc, pc, beers, raised, lines, current_group,
                 current_category, site>>
  /\ UNCHANGED <<v1700, vTrad>>

\* lines 194-273: a brewery line marks a beer, named by the line above it
B_Beer ==
  /\ parser = "billsburg" /\ pc = "scan"
  /\ i <= Len(lines) /\ ~IsComingSoon(lines[i]) /\ is_brewery_line(lines[i])
  /\ LET beer_name == NameAbove(lines, i - 1)
         f == ScanForward(lines, i + 1, [style |-> None, abv |-> None, ibu |-> None])
     IN IF beer_name = None \/ beer_name = Some(<<>>)
        THEN beers' = beers
        ELSE beers' = Append(beers, Record_billsburg(beer_name[1], f, current_group,
                                                     current_category))
  /\ i' = i + 1
  /\ UNCHANGED <<parser, doc, pc, raised, lines, current_group, current_category,
                 site>>
  /\ UNCHANGED <<v1700, vTrad>>

\* =============================================== scrape_tradition.py
BREWERY_NAME_tradition == <<"Tradition", " ", "Brewing", " ", "Company">>

slugify_tradition(text) ==
  StripHyphens(CollapseHyphens(HyphenRuns(
    Remove(Lower(text), {"acirc", "euro", "trade", "'"}))))

\* re.fullmatch(r"\s*(\d+(?:\.\d+)?)\s*%\s*", line)
parse_abv_tradition(line) ==
  LET t == Strip(line)
  IN IF IsPercentLine(t) THEN Some(NumberAt(t, 1, HasFrac(t, 1))) ELSE None

UpperSym(s) ==
  CASE s = "weekly" -> "WEEKLY" [] s = "Weekly" -> "WEEKLY"
    [] s = "lineup" -> "LINEUP" [] s = "Lineup" -> "LINEUP"
    [] OTHER -> s

Upper(t) == [k \in 1..Len(t) |-> UpperSym(t[k])]

Separator == <<"*", " ", "*", " ", "*">>

legend_words == {<<"draft">>, <<"can">>, <<"bottle">>, <<"growler">>, <<"crowler">>}

icon_words == {<<"draft">>, <<"can">>, <<"bottle">>, <<"growler">>, <<"crowler">>}

TopHeaders == {<<"Taproom">>, <<"Visit", " ", "Us">>, <<"Location">>, <<"Hours">>}

IsOnTap(ln) == Lower(ln) = <<"what", "'", "s", " ", "on", " ", "tap">>

IsWeeklyLineup(ln) == Upper(Strip(ln)) = <<"WEEKLY", " ", "LINEUP">>

\* index of the first line of ls that is in the set hits, 0 when there is none
FirstLine(ls, hits) ==
  IF \E k \in 1..Len(ls) : ls[k] \in hits
  THEN CHOOSE k \in 1..Len(ls) :
         ls[k] \in hits /\ \A m \in 1..(k-1) : ls[m] \notin hits
  ELSE 0

\* the lines of ls that read "what's on tap"
OnTapLines(ls) == {ls[k] : k \in {n \in 1..Len(ls) : IsOnTap(ls[n])}}

\* the lines of ls that read "WEEKLY LINEUP"
WeeklyLines(ls) == {ls[k] : k \in {n \in 1..Len(ls) : IsWeeklyLineup(ls[n])}}

\* lines 72-85: lines[start:end]
SectionOf(ls) ==
  LET start == FirstLine(ls, OnTapLines(ls))
      w == FirstLine(ls, WeeklyLines(ls))
      end == IF w = 0 THEN Len(ls) ELSE w - 1
  IN SubSeq(ls, start, end)

\* lines 108-120: legend words, top headers and separators name no beer
IsSkipped(ln) ==
  \/ Lower(ln) \in legend_words
  \/ ln \in TopHeaders
  \/ Strip(ln) \in {<<"|">>, Separator}

\* lines 128-136: index of the separator that closes the chunk opened after
\* position k, Len + 1 when there is none
RECURSIVE ChunkEnd(_, _)
ChunkEnd(sec, j) ==
  IF j > Len(sec) THEN j
  ELSE IF Strip(sec[j]) = Separator THEN j
  ELSE ChunkEnd(sec, j + 1)

\* lines 138-143
RECURSIVE FirstAbv(_)
FirstAbv(chunk) ==
  IF chunk = <<>> THEN None
  ELSE IF parse_abv_tradition(Head(chunk)) # None THEN parse_abv_tradition(Head(chunk))
  ELSE FirstAbv(Tail(chunk))

NoStyle(cand) ==
  \/ cand = <<>> \/ Lower(cand) \in icon_words \/ cand = <<"|">>
  \/ Find(cand, "%") # 0

\* lines 149-167: backwards from the pipe to the first line that may be a style
RECURSIVE StyleBefore(_, _)
StyleBefore(chunk, k) ==
  IF k < 1 THEN None
  ELSE LET cand == Strip(chunk[k])
       IN IF NoStyle(cand) THEN StyleBefore(chunk, k - 1)
          ELSE IF 2 <= CharLen(cand) /\ CharLen(cand) <= 40 THEN Some(cand)
          ELSE None

\* lines 169-182: the first short line that may be a style
RECURSIVE StyleFallback(_)
StyleFallback(chunk) ==
  IF chunk = <<>> THEN None
  ELSE LET c == Strip(Head(chunk))
       IN IF ~NoStyle(c) /\ 2 <= CharLen(c) /\ CharLen(c) <= 40 THEN Some(c)
          ELSE StyleFallback(Tail(chunk))

StyleOfChunk(chunk) ==
  IF \E k \in 1..Len(chunk) : chunk[k] = <<"|">>
  THEN StyleBefore(chunk, FirstLine(chunk, {<<"|">>}) - 1)
  ELSE StyleFallback(chunk)

Record_tradition(beer_name, chunk) ==
  [id |-> slugify_tradition(BREWERY_NAME_tradition \o <<"-">> \o beer_name),
   producerName |-> BREWERY_NAME_tradition, name |-> beer_name,
   style |-> StyleOfChunk(chunk), abv |-> FirstAbv(chunk), ibu |-> None,
   tapGroup |-> <<"On", " ", "Tap">>, category |-> "on_tap"]

\* a de-duplication that keeps the first record of every id
Dedup_KeepFirst(bs) ==
  LET Keep(k) == \A m \in 1..(k-1) : bs[m].id # bs[k].id
      idx == SelectSeq([k \in 1..Len(bs) |-> k], Keep)
  IN [n \in 1..Len(idx) |-> bs[idx[n]]]

\* lines 204-208: a dict keyed by id keeps the place of the first record with
\* an id and the value of the last
Dedup(bs) ==
  LET firsts == {k \in 1..Len(bs) : \A m \in 1..(k-1) : bs[m].id # bs[k].id}
      LastOf(k) == CHOOSE m \in k..Len(bs) :
                     bs[m].id = bs[k].id /\ \A n \in (m+1)..Len(bs) : bs[n].id # bs[k].id
      Keep(k) == k \in firsts
      idx == SelectSeq([k \in 1..Len(bs) |-> k], Keep)
  IN [n \in 1..Len(idx) |-> bs[LastOf(idx[n])]]

\* ---- input documents of the line-based parsers
MaxLines == 4

MaxSiteLines == 3

LineDocs(S, n) == BoundedSeq({Nd("line", t) : t \in S}, n)

Lines_billsburg ==
  { <<"Ale">>, <<" ", "Billsburg", " ", "brewery">>,
    <<"Coming", " ", "Soon">>, <<"5", ".", "3", "%">>, <<"IBU", " ", "22">>,
    <<"IBU", " ", "999">>, <<"Powered", " ", "by", " ", "Taplist">> }

Lines_site == { <<"ale", "!">>, <<"IPA">>, <<"6", ".", "0", "%">> }

Fetched_site == {FetchFailed} \cup LineDocs(Lines_site, MaxSiteLines)

Sites == {SiteOf(fetched) : fetched \in Fetched_site}

\* lines 275-279: fields are missing, the brewery's own page is consulted
B_Enrich ==
  /\ parser = "billsburg" /\ pc = "scan"
  /\ i > Len(lines) /\ AnyMissing(beers)
  /\ \E s \in Sites :
       /\ site' = s
       /\ beers' = enrich_from_billsburg_site(beers, s)
  /\ pc' = "done"
  /\ UNCHANGED <<parser, doc, raised, lines, i, current_group, current_category>>
  /\ UNCHANGED <<v1700, vTrad>>

\* lines 276, 279: nothing is missing
B_Return ==
  /\ parser = "billsburg" /\ pc = "scan"
  /\ i > Len(lines) /\ ~AnyMissing(beers)
  /\ pc' = "done"
  /\ UNCHANGED <<parser, doc, beers, raised, lines, i, current_group,
                 current_category, site>>
  /\ UNCHANGED <<v1700, vTrad>>

\* ---- parse_tradition, step by step
vBills == <<current_group, current_category, site>>

\* T_NoSection without the try/except of lines 73-77: the StopIteration of
\* next() reaches the caller
T_NoSection_Raise ==
  /\ parser = "tradition" /\ pc = "start"
  /\ FirstLine(NormalizeLines(doc), OnTapLines(NormalizeLines(doc))) = 0
  /\ lines' = NormalizeLines(doc)
  /\ raised' = TRUE
  /\ pc' = "raised"
  /\ UNCHANGED <<parser, doc, beers, i, section>>
  /\ UNCHANGED <<v1700, vBills>>

\* lines 65-77: no "What's On Tap" line, an empty list is returned
T_NoSection ==
  /\ parser = "tradition" /\ pc = "start"
  /\ FirstLine(NormalizeLines(doc), OnTapLines(NormalizeLines(doc))) = 0
  /\ lines' = NormalizeLines(doc)
  /\ pc' = "done"
  /\ UNCHANGED <<parser, doc, beers, raised, i, section>>
  /\ UNCHANGED <<v1700, vBills>>

\* lines 65-103: the section between the two markers is cut out
T_Section ==
  /\ parser = "tradition" /\ pc = "start"
  /\ FirstLine(NormalizeLines(doc), OnTapLines(NormalizeLines(doc))) # 0
  /\ lines' = NormalizeLines(doc)
  /\ section' = SectionOf(NormalizeLines(doc))
  /\ i' = 1
  /\ pc' = "scan"
  /\ UNCHANGED <<parser, doc, beers, raised>>
  /\ UNCHANGED <<v1700, vBills>>

\* lines 104-120
T_Skip ==
  /\ parser = "tradition" /\ pc = "scan"
  /\ i <= Len(section) /\ IsSkipped(section[i])
  /\ i' = i + 1
  /\ UNCHANGED <<parser, doc, pc, beers, raised, lines, section>>
  /\ UNCHANGED <<v1700, vBills>>

\* lines 122-202: any other line names a beer; its chunk runs to the separator
T_Beer ==
  /\ parser = "tradition" /\ pc = "scan"
  /\ i <= Len(section) /\ ~IsSkipped(section[i])
  /\ LET j == ChunkEnd(section, i + 1)
         chunk == SubSeq(section, i + 1, j - 1)
     IN /\ beers' = Append(beers, Record_tradition(section[i], chunk))
        /\ i' = IF j <= Len(section) THEN j + 1 ELSE i + 1
  /\ UNCHANGED <<parser, doc, pc, raised, lines, section>>
  /\ UNCHANGED <<v1700, vBills>>

\* lines 204-214
T_Dedup ==
  /\ parser = "tradition" /\ pc = "scan"
  /\ i > Len(section)
  /\ beers' = Dedup(beers)
  /\ pc' = "done"
  /\ UNCHANGED <<parser, doc, raised, lines, i, section>>
  /\ UNCHANGED <<v1700, vBills>>

Lines_tradition ==
  { <<"What", "'", "s", " ", "On", " ", "Tap">>, <<"Weekly", " ", "Lineup">>,
    Separator, <<"|">>, <<"Ale">>, <<"5", ".", "3", "%">>, <<"Draft">> }

\* ---- input documents of parse_1700_page
Headings_1700 == {<<"Taps">>, <<"Reserves">>, <<"Hours">>}

Headers_1700 ==
  { <<"12", ".", " ", "Ale">>,
    <<"Ale", ",", " ", "Stout">>,
    <<",", " ", "Stout">>,
    <<"!">> }

StatFull == <<"5", ".", "3", "%", " ", "ABV", " ", "|", " ", "22", " ", "IBU",
              " ", "|", " ", "Acme">>

StatNoProducer == <<"5", ".", "3", "%", " ", "ABV", " ", "|", " ", "22", " ", "IBU">>

StatBullet == <<"bullet", " ", "IPA", " ", "|", " ", "9", "%", " ", "ABV", " ",
                "|", " ", "999", " ", "IBU", " ", "|", " ", "Acme">>

Bodies_1700 ==
  { <<Nd("p", <<"Hours">>)>>, <<Nd("p", StatNoProducer)>>, <<Nd("p", StatBullet)>> }

\* every header with a full stat line, two of them also with the other bodies
Entries_1700 ==
  { <<Nd("h3", h), Nd("p", StatFull)>> : h \in Headers_1700 } \cup
  { <<Nd("h3", h)>> \o b :
      h \in {<<"12", ".", " ", "Ale">>, <<"!">>}, b \in Bodies_1700 }

Blocks_1700 == { <<Nd("h2", h)>> : h \in Headings_1700 } \cup Entries_1700

Docs_1700 ==
  { pre \o Flatten(bs) :
      pre \in {<<>>, <<Nd("h1", <<"Our", " ", "Drinks">>)>>},
      bs \in BoundedSeq(Blocks_1700, MaxBlocks) }

Init ==
  /\ \/ parser = "1700" /\ doc \in Docs_1700
     \/ parser = "billsburg" /\ doc \in LineDocs(Lines_billsburg, MaxLines)
     \/ parser = "tradition" /\ doc \in LineDocs(Lines_tradition, MaxLines)
  /\ pc = "start"
  /\ beers = <<>>
  /\ raised = FALSE
  /\ tap_groups = <<>>
  /\ gi = 0
  /\ node = 0
  /\ tap_group = <<>>
  /\ category = ""
  /\ lines = <<>>
  /\ i = 0
  /\ current_group = <<"On", " ", "Tap">>
  /\ current_category = "on_tap"
  /\ section = <<>>
  /\ site = NotCalled

Next ==
  \/ P1700_NoAnchor
  \/ P1700_Anchor
  \/ P1700_Group
  \/ P1700_EndGroup
  \/ P1700_Beer
  \/ P1700_Skip
  \/ P1700_Return
  \/ B_Lines
  \/ B_ComingSoon
  \/ B_Other
  \/ B_Beer
  \/ B_Enrich
  \/ B_Return
  \/ T_NoSection
  \/ T_Section
  \/ T_Skip
  \/ T_Beer
  \/ T_Dedup

Spec == Init /\ [][Next]_vars

\* ================================================================ claims

\* C1: when a parser has returned, no two records of the returned sequence
\* have the same id.
C1_IdsUnique ==
  pc = "done" =>
    \A a, b \in 1..Len(beers) : a # b => beers[a].id # beers[b].id

\* C2: the enrichment never overwrites a populated field: across the call a
\* non-null style or abv keeps its value, no other field changes, and no
\* record is added, dropped or moved.
C2_EnrichFillsOnlyMissing ==
  [][ site' # site =>
        /\ Len(beers') = Len(beers)
        /\ \A k \in 1..Len(beers) :
             /\ beers[k].style # None => beers'[k].style = beers[k].style
             /\ beers[k].abv # None => beers'[k].abv = beers[k].abv
             /\ [beers'[k] EXCEPT !.style = beers[k].style,
                                  !.abv = beers[k].abv] = beers[k] ]_vars

\* a record whose abv 5.3 was kept although the site offered 6.0 for its
\* name, and whose missing style was filled
C2_Witness ==
  /\ pc = "done" /\ site.called /\ ~site.failed
  /\ \E k \in 1..Len(beers) :
       /\ beers[k].abv = Some(53) /\ beers[k].style = Some(<<"IPA">>)
       /\ \E n \in 1..Len(site.mapping) :
            /\ site.mapping[n].key = build_name_key(beers[k].name)
            /\ site.mapping[n].abv = Some(60)

\* the page has no h1/h2 containing "Our Drinks"
NoDrinksHeading ==
  \A k \in 1..Len(doc) :
    ~(doc[k].name \in {"h1", "h2"} /\ Contains(doc[k].text, <<"Our", " ", "Drinks">>))

\* the page has no line reading "what's on tap", in whatever case
NoOnTapLine ==
  \A k \in 1..Len(doc) :
    Lower(Strip(doc[k].text)) # <<"what", "'", "s", " ", "on", " ", "tap">>

\* C3 as first stated: when the structural anchor of the page is missing,
\* parse_1700_page and parse_tradition return an empty sequence and raise
\* nothing.
C3_MissingAnchorReturnsEmpty ==
  ( /\ pc # "start"
    /\ \/ parser = "1700" /\ NoDrinksHeading
       \/ parser = "tradition" /\ NoOnTapLine )
  => (pc = "done" /\ ~raised /\ beers = <<>>)

\* C3, amended: without a "What's On Tap" line parse_tradition returns an
\* empty sequence and raises nothing; without an "Our Drinks" heading
\* parse_1700_page raises to its caller and returns no record.
C3_MissingAnchor ==
  /\ (pc # "start" /\ parser = "tradition" /\ NoOnTapLine) =>
       (pc = "done" /\ ~raised /\ beers = <<>>)
  /\ (pc # "start" /\ parser = "1700" /\ NoDrinksHeading) =>
       (pc = "raised" /\ raised /\ beers = <<>>)

\* parse_tradition has returned on a page of several lines, none of them
\* the "What's On Tap" line
C3_Witness ==
  /\ parser = "tradition" /\ pc = "done" /\ NoOnTapLine
  /\ Len(lines) >= 2 /\ beers = <<>> /\ ~raised

\* C4: when the fetch of the secondary page fails or the page yields no
\* triplet, the enrichment returns normally and leaves every record as it
\* was, and parse_billsburg_page returns the primary records.
C4_FailedEnrichmentKeepsRecords ==
  [][ (site' # site /\ (site'.failed \/ site'.mapping = <<>>)) =>
        (beers' = beers /\ pc' = "done" /\ ~raised') ]_vars

\* the fetch failed and two primary records were returned
C4_Witness ==
  /\ parser = "billsburg" /\ pc = "done" /\ ~raised
  /\ site.called /\ site.failed /\ Len(beers) >= 2

\* C5: every record has a non-empty name.
C5_NamesNonEmpty == \A k \in 1..Len(beers) : beers[k].name # <<>>

\* C6: the ibu of every record is absent or an integer in 1..150.
C6_IbuInRange ==
  \A k \in 1..Len(beers) :
    beers[k].ibu = None \/ (1 <= beers[k].ibu[1] /\ beers[k].ibu[1] <= 150)

\* C7 as first stated: the tap group of parse_1700_page is only ever the text
\* of a heading that carries a group keyword ("Taps", "Reserves"), so a
\* heading such as "Hours" leaves it unchanged.
C7_GroupOnlyAtKeywordHeading ==
  parser = "1700" =>
    \/ tap_group = <<>>
    \/ Contains(tap_group, <<"Taps">>)
    \/ Contains(tap_group, <<"Reserves">>)

\* index of the nearest h2 before position k, 0 when there is none
LastH2Before(d, k) ==
  IF \E m \in 1..(k-1) : d[m].name = "h2"
  THEN CHOOSE m \in 1..(k-1) :
         d[m].name = "h2" /\ \A n \in (m+1)..(k-1) : d[n].name # "h2"
  ELSE 0

\* C7, amended: the group changes only at a group heading, which in
\* parse_1700_page is every h2 after the anchor, whatever its text, and in
\* parse_billsburg_page a line starting with "coming soon"; every record
\* carries the group and category of the nearest such heading before it.
C7_GroupFollowsGroupHeadings ==
  [][ /\ (parser = "1700" /\ (tap_group' # tap_group \/ category' # category)) =>
           /\ pc = "groups" /\ pc' = "walk"
           /\ doc[node' - 1].name = "h2"
           /\ tap_group' = Strip(doc[node' - 1].text)
      /\ (parser = "billsburg" /\ (current_group' # current_group
                                   \/ current_category' # current_category)) =>
           (pc = "scan" /\ StartsWith(Lower(lines[i]), <<"coming", " ", "soon">>))
      /\ (parser = "1700" /\ Len(beers') = Len(beers) + 1) =>
           LET h == LastH2Before(doc, node)
               b == beers'[Len(beers')]
           IN /\ h # 0
              /\ b.tapGroup = Strip(doc[h].text)
              /\ b.category = IF Contains(doc[h].text, <<"Reserves">>)
                              THEN "guest_na" ELSE "on_tap"
      /\ (parser = "billsburg" /\ Len(beers') = Len(beers) + 1) =>
           LET soon == \E m \in 1..(i-1) :
                         StartsWith(Lower(lines[m]), <<"coming", " ", "soon">>)
               b == beers'[Len(beers')]
           IN /\ b.tapGroup = IF soon THEN <<"Coming", " ", "Soon">>
                              ELSE <<"On", " ", "Tap">>
              /\ b.category = IF soon THEN "coming_soon" ELSE "on_tap"
    ]_vars

\* a record of parse_1700_page listed under the heading "Hours" that follows
\* the heading "Taps"
C7_Witness ==
  /\ parser = "1700" /\ pc = "done"
  /\ \E k \in 1..Len(beers) : beers[k].tapGroup = <<"Hours">>
  /\ \E a, b \in 1..Len(doc) :
       /\ a < b /\ doc[a] = Nd("h2", <<"Taps">>) /\ doc[b] = Nd("h2", <<"Hours">>)

\* does the body window of the entry under the scan hold a stat line
StatInWindow ==
  CASE parser = "1700" -> AbvLine(doc, node + 1) # None
    [] parser = "billsburg" ->
         LET f == ScanForward(lines, i + 1,
                              [style |-> None, abv |-> None, ibu |-> None])
         IN f.abv # None \/ f.ibu # None
    [] parser = "tradition" ->
         FirstAbv(SubSeq(section, i + 1, ChunkEnd(section, i + 1) - 1)) # None

EmittableHeaders ==
  {k \in 1..Len(doc) : /\ doc[k].name = "h3"
                       /\ tap_groups # <<>> /\ k > tap_groups[1]
                       /\ AbvLine(doc, k + 1) # None}

WellFormedSlug(id) ==
  /\ \A k \in 1..Len(id) : id[k] = "-" \/ (IsWord(id[k]) /\ LowerSym(id[k]) = id[k])
  /\ id # <<>> => (id[1] # "-" /\ id[Len(id)] # "-")
  /\ \A k \in 1..(Len(id) - 1) : ~(id[k] = "-" /\ id[k+1] = "-")

\* C9: the id of every record consists of lowercase alphanumerics and
\* hyphens, with no hyphen at either end and no two hyphens in a row.
C9_IdWellFormed == \A k \in 1..Len(beers) : WellFormedSlug(beers[k].id)

\* the producer the claim names for a stat line: its last "|" segment that
\* is not empty and holds neither ABV nor IBU, else the venue
ClaimedProducer(line) ==
  LET chunks == Split(line, "|")
      plain == {n \in 1..Len(chunks) :
                  /\ Strip(chunks[n]) # <<>>
                  /\ ~HasSym(chunks[n], "abv") /\ ~HasSym(chunks[n], "ibu")}
  IN IF plain = {} THEN BREWERY_NAME_1700
     ELSE Strip(chunks[CHOOSE n \in plain : \A m \in plain : m <= n])

\* C10: the producer of a record of parse_1700_page is the last segment of
\* its stat line that is neither an ABV nor an IBU segment nor empty, and
\* the venue name when there is no such segment.
C10_ProducerIsLastPlainSegment ==
  [][ (parser = "1700" /\ Len(beers') = Len(beers) + 1) =>
        beers'[Len(beers')].producerName =
          ClaimedProducer(AbvLine(doc, node + 1)[1]) ]_vars

\* positions of ls from k on whose line sets abv, ibu or style in the forward
\* scan of parse_billsburg_page; hasStyle tells whether the style is set
RECURSIVE ScanUsed(_, _, _)
ScanUsed(ls, k, hasStyle) ==
  IF k > Len(ls) THEN {}
  ELSE IF \/ (k + 1 <= Len(ls) /\ is_brewery_line(ls[k+1]))
          \/ IsComingSoon(ls[k])
          \/ is_noise(ls[k])
          \/ is_brewery_line(ls[k])
       THEN {}
  ELSE IF parse_abv_billsburg(ls[k]) # None \/ parse_ibu(ls[k]) # None
       THEN {k} \cup ScanUsed(ls, k + 1, hasStyle)
  ELSE IF IsSrmLine(ls[k]) THEN ScanUsed(ls, k + 1, hasStyle)
  ELSE IF ~hasStyle /\ IsStyleLine(ls[k]) THEN {k} \cup ScanUsed(ls, k + 1, TRUE)
  ELSE ScanUsed(ls, k + 1, hasStyle)

\* position of the line NameAbove(ls, j) takes as the name, 0 when none
RECURSIVE NamePos(_, _)
NamePos(ls, j) ==
  IF j < 1 THEN 0
  ELSE IF \/ is_noise(ls[j]) \/ IsComingSoon(ls[j])
          \/ Contains(Lower(ls[j]), <<"current", " ", "menu">>)
       THEN NamePos(ls, j - 1)
       ELSE j

\* positions of the section whose line gives abv or style to the record of
\* the entry at position k of parse_tradition
UsedLines_tradition(sec, k) ==
  LET j == ChunkEnd(sec, k + 1)
      win == (k + 1)..(j - 1)
      chunk == SubSeq(sec, k + 1, j - 1)
      abvs == {p \in win : parse_abv_tradition(sec[p]) # None}
      pipes == {p \in win : sec[p] = <<"|">>}
      style == StyleOfChunk(chunk)
      cands == {p \in win : style = Some(Strip(sec[p]))
                            /\ (pipes # {} => \A q \in pipes : p < q)}
  IN {p \in abvs : \A q \in abvs : p <= q}
     \cup (IF pipes # {} THEN {p \in cands : \A q \in cands : q <= p}
           ELSE {p \in cands : \A q \in cands : p <= q})

\* the lines that give abv, ibu or style to the record of the entry under
\* the scan
UsedLines ==
  CASE parser = "1700" ->
         {p \in (node + 1)..Len(doc) :
            /\ AbvLine(doc, node + 1) = Some(Strip(doc[p].text))
            /\ \A q \in (node + 1)..p : doc[q].name \notin {"h2", "h3"}}
    [] parser = "billsburg" -> ScanUsed(lines, i + 1, FALSE)
    [] parser = "tradition" -> UsedLines_tradition(section, i)

\* the start boundary of the entry that follows the entry under the scan:
\* the next h2/h3 of a 1700 page, the name line of the next brewery line of
\* a billsburg page, the next line of a tradition section that the scan
\* takes as a name; past the end when there is none
NextEntryStart ==
  CASE parser = "1700" ->
         LET nx == {p \in (node + 1)..Len(doc) : doc[p].name \in {"h2", "h3"}}
         IN IF nx = {} THEN Len(doc) + 1 ELSE CHOOSE p \in nx : \A q \in nx : p <= q
    [] parser = "billsburg" ->
         LET nx == {p \in (i + 1)..Len(lines) :
                      is_brewery_line(lines[p]) /\ NamePos(lines, p - 1) # 0}
         IN IF nx = {} THEN Len(lines) + 1
            ELSE NamePos(lines, (CHOOSE p \in nx : \A q \in nx : p <= q) - 1)
    [] parser = "tradition" ->
         LET j == ChunkEnd(section, i + 1)
             from == IF j <= Len(section) THEN j + 1 ELSE i + 1
             nx == {p \in from..Len(section) : ~IsSkipped(section[p])}
         IN IF nx = {} THEN Len(section) + 1 ELSE CHOOSE p \in nx : \A q \in nx : p <= q

\* C11: in every parser the body window of an entry ends at the start
\* boundary of the next entry: whenever a record is appended, every line that
\* gave it abv, ibu or style lies before the start boundary of the next
\* entry, so no line feeds two records and no stat line of one record is the
\* name of another.
C11_WindowEndsAtNextEntry ==
  [][ Len(beers') = Len(beers) + 1 =>
        \A p \in UsedLines : p < NextEntryStart ]_vars

\* index of the first record of bs with the id, 0 when there is none
FirstWithId(bs, id) ==
  IF \E k \in 1..Len(bs) : bs[k].id = id
  THEN CHOOSE k \in 1..Len(bs) : bs[k].id = id /\ \A m \in 1..(k-1) : bs[m].id # id
  ELSE 0

\* index of the last record of bs with the id, 0 when there is none
LastWithId(bs, id) ==
  IF \E k \in 1..Len(bs) : bs[k].id = id
  THEN CHOOSE k \in 1..Len(bs) :
         bs[k].id = id /\ \A m \in (k+1)..Len(bs) : bs[m].id # id
  ELSE 0

\* C12: the deduplication of parse_tradition outputs exactly one record for
\* each id of the segmented entries; that record has the fields of the last
\* entry with the id, and the output is ordered by the first occurrence of
\* each id among the entries.
C12_DedupLastValueFirstPlace ==
  [][ (parser = "tradition" /\ pc = "scan" /\ pc' = "done") =>
        /\ {beers'[n].id : n \in 1..Len(beers')} = {beers[k].id : k \in 1..Len(beers)}
        /\ \A n, m \in 1..Len(beers') : n # m => beers'[n].id # beers'[m].id
        /\ \A n \in 1..Len(beers') :
             beers'[n] = beers[LastWithId(beers, beers'[n].id)]
        /\ \A n, m \in 1..Len(beers') :
             n < m => FirstWithId(beers, beers'[n].id) < FirstWithId(beers, beers'[m].id)
    ]_vars

\* parse_tradition has returned on the section "What's On Tap", "Ale",
\* "5.3%", "Ale": the entry "Ale" occurs twice, first with abv 5.3 and last
\* with no field, and the one record "Ale" returned has no abv and stands
\* before the record "5.3%" that was segmented between the two
C12_Witness ==
  /\ parser = "tradition" /\ pc = "done"
  /\ section = << <<"What", "'", "s", " ", "On", " ", "Tap">>, <<"Ale">>,
                  <<"5", ".", "3", "%">>, <<"Ale">> >>
  /\ Len(beers) = 3
  /\ beers[2].name = <<"Ale">> /\ beers[2].abv = None /\ beers[2].style = None
  /\ beers[3].name = <<"5", ".", "3", "%">>

====
